---- MODULE Spec2Model ----
(***************************************************************************)
(* Bitbucket Cloud pull requests (PullRequests collection, PullRequest and *)
(* Participant resource objects) as a state machine.                       *)
(*                                                                         *)
(* Python values are modelled as follows.  None, True and False are the    *)
(* strings "None", "True" and "False".  A JSON document (dict) is a TLA+   *)
(* record whose DOMAIN is the set of keys it carries.  The "state" field   *)
(* of a pull request is a sequence of one-character strings, so that       *)
(* str.upper() is computed character by character.  A URL is the sequence  *)
(* of its path segments.                                                   *)
(***************************************************************************)
EXTENDS Integers, Sequences, FiniteSets, TLC

VARIABLES
    pr,        \* the resource object held by the caller, or NoObject
    data0,     \* the document pr was constructed from (history)
    requests,  \* the HTTP requests issued by the last call, in order
    ret,       \* the last call: operation, arguments, raised error, value
    pages,     \* server: the page chain of the collection endpoint
    gen,       \* the generator returned by PullRequests.each()
    prev,      \* the successful merge or decline made just before the last
               \* call on the object, or None (history)
    insight,   \* server: what the Service Desk / Insight endpoints hold
    sd,        \* the ServiceDesk call in progress: its locals and position
    headers    \* ServiceDesk.experimental_headers, shared by all requests

sdvars == <<insight, sd, headers>>

vars == <<pr, data0, requests, ret, pages, gen, prev, insight, sd, headers>>

-----------------------------------------------------------------------------
(* Bounds *)

MaxId == 2

-----------------------------------------------------------------------------
(* Python values *)

None == "None"
True == "True"
False == "False"

\* bool(v) for the values used here: None, False and "" are falsy
Truthy(v) == v \notin {None, False, ""}

\* a or b
Or(a, b) == IF Truthy(a) THEN a ELSE b

lowercase == <<"a","b","c","d","e","f","g","h","i","j","k","l","m",
               "n","o","p","q","r","s","t","u","v","w","x","y","z">>
uppercase == <<"A","B","C","D","E","F","G","H","I","J","K","L","M",
               "N","O","P","Q","R","S","T","U","V","W","X","Y","Z">>

upper_char(c) ==
    IF \E i \in DOMAIN lowercase : lowercase[i] = c
    THEN uppercase[CHOOSE i \in DOMAIN lowercase : lowercase[i] = c]
    ELSE c

\* str.upper()
upper(s) == [i \in DOMAIN s |-> upper_char(s[i])]

\* str(id) for the ids of the model
str(i) == <<"0","1","2","3","4","5","6","7","8","9">>[i + 1]

-----------------------------------------------------------------------------
(* const.py *)

PR_MERGE_COMMIT == "merge_commit"
PR_MERGE_SQUASH == "squash"
PR_MERGE_FF == "fast_forward"
PR_MERGE_STRATEGIES == <<PR_MERGE_COMMIT, PR_MERGE_SQUASH, PR_MERGE_FF>>
PR_STATE_OPEN == <<"O","P","E","N">>
PR_STATE_DECLINED == <<"D","E","C","L","I","N","E","D">>
PR_STATE_MERGED == <<"M","E","R","G","E","D">>
PR_STATE_SUPERSEDED == <<"S","U","P","E","R","S","E","D","E","D">>

-----------------------------------------------------------------------------
(* Inputs *)

\* values of the "state" field: the four enumerated values, other casings
\* of them, and strings that are none of them
StateStrings ==
    { PR_STATE_OPEN, PR_STATE_DECLINED, PR_STATE_MERGED, PR_STATE_SUPERSEDED,
      <<"o","p","e","n">>, <<"O","p","e","n">>,
      <<"m","e","r","g","e","d">>, <<"D","e","c","l","i","n","e","d">>,
      <<"s","u","p","e","r","s","e","d","e","d">>,
      <<"D","R","A","F","T">>, <<"O","P","E","N","E","D">>, <<>> }

TypeTags == {"pullrequest", "participant", "repository"}

Ids == 1..MaxId

\* pull request documents, with and without a type tag
TaggedDocs ==
    [type : TypeTags, id : Ids, state : StateStrings,
     close_source_branch : {True, False}]
UntaggedDocs ==
    [id : Ids, state : StateStrings, close_source_branch : {True, False}]
Docs == TaggedDocs \cup UntaggedDocs

MergeStrategyArgs ==
    {PR_MERGE_COMMIT, PR_MERGE_SQUASH, PR_MERGE_FF, "invalid", "commit", ""}
CloseSourceBranchArgs == {None, True, False}
MessageArgs == {None, "", "lgtm", "ship it"}

\* outcome of one HTTP exchange: a 2xx response or a transport error
Responses == {"ok", "error"}

Url == <<"pullrequests">>

-----------------------------------------------------------------------------
(* base classes *)

\* no object: the call raised, or nothing was constructed yet
NoObject == [kind |-> "unbound"]

\* dict lookup with default None
get_data(self, key) ==
    IF key \in DOMAIN self.data THEN self.data[key] ELSE None

url_joiner(url, path) == url \o <<str(path)>>

\* The constructor's type check: the error it raises, or None
BitbucketCloudBase__init__(data, expected_type) ==
    IF /\ expected_type # None
       /\ "type" \in DOMAIN data
       /\ data.type # expected_type
    THEN "SchemaMismatch"
    ELSE None

\* the request a post()/delete() of the object sends
post(self, path, data) ==
    [method |-> "POST", url |-> self.url \o <<path>>, data |-> data]
post_nodata(self, path) ==
    [method |-> "POST", url |-> self.url \o <<path>>]
delete(self, path) ==
    [method |-> "DELETE", url |-> self.url \o <<path>>]

\* what a request raises for a response
raise_for(resp) == IF resp = "ok" THEN None ELSE "HTTPError"

-----------------------------------------------------------------------------
(* class PullRequest *)

\* mutant: is_merged compares against the wrong constant
is_merged_open(self) == upper(get_data(self, "state")) = PR_STATE_OPEN

\* mutant: is_open without upper()
is_open_exact(self) == get_data(self, "state") = PR_STATE_OPEN

\* mutant: _check_if_open never raises
_check_if_open_never(self) == None

\* the constructor: the error it raises (or None) and the object it leaves
PullRequest__init__(url, data) ==
    LET raised == BitbucketCloudBase__init__(data, "pullrequest")
    IN  [raised |-> raised,
         obj |-> IF raised # None THEN NoObject
                 ELSE [kind |-> "PullRequest", url |-> url, data |-> data]]

id(self) == get_data(self, "id")

is_declined(self) == upper(get_data(self, "state")) = PR_STATE_DECLINED
is_merged(self) == upper(get_data(self, "state")) = PR_STATE_MERGED
is_open(self) == upper(get_data(self, "state")) = PR_STATE_OPEN
is_superseded(self) == upper(get_data(self, "state")) = PR_STATE_SUPERSEDED

close_source_branch(self) == get_data(self, "close_source_branch")

\* the error _check_if_open raises, or None
_check_if_open(self) == IF ~is_open(self) THEN "Exception" ELSE None

(* class Participant *)

\* mutant: Participant declares no expected type
Participant__init__untyped(data) ==
    [raised |-> None,
     obj |-> [kind |-> "Participant", url |-> <<>>, data |-> data]]

Participant__init__(data) ==
    LET raised == BitbucketCloudBase__init__(data, "participant")
    IN  [raised |-> raised,
         obj |-> IF raised # None THEN NoObject
                 ELSE [kind |-> "Participant", url |-> <<>>, data |-> data]]

-----------------------------------------------------------------------------
(* Calls on resource objects.  Every action is one whole call. *)

Call(op, args, raised) == [op |-> op, args |-> args, raised |-> raised]

\* the name of a call if it was a merge or decline that did not raise
Acted(call) ==
    IF call.op \in {"merge", "decline"} /\ call.raised = None THEN call.op
    ELSE None

NewPullRequest(data) ==
    /\ pr' = PullRequest__init__(url_joiner(Url, data.id), data).obj
    /\ data0' = data
    /\ requests' = <<>>
    /\ ret' = Call("PullRequest", [data |-> data],
                   PullRequest__init__(url_joiner(Url, data.id), data).raised)
    /\ prev' = Acted(ret)
    /\ UNCHANGED <<pages, gen, sdvars>>

NewParticipant(data) ==
    /\ pr' = Participant__init__(data).obj
    /\ data0' = data
    /\ requests' = <<>>
    /\ ret' = Call("Participant", [data |-> data],
                   Participant__init__(data).raised)
    /\ prev' = Acted(ret)
    /\ UNCHANGED <<pages, gen, sdvars>>

\* mutant: comment checks the open precondition like the other actions
comment_checked(raw_message, resp) ==
    /\ pr.kind = "PullRequest"
    /\ IF ~is_open(pr)
       THEN /\ requests' = <<>>
            /\ ret' = Call("comment", [raw_message |-> raw_message], "Exception")
       ELSE IF ~Truthy(raw_message)
       THEN /\ requests' = <<>>
            /\ ret' = Call("comment", [raw_message |-> raw_message], "ValueError")
       ELSE /\ requests' =
                <<[method |-> "POST", url |-> pr.url \o <<"comments">>,
                   data |-> [content |-> [raw |-> raw_message]]]>>
            /\ ret' = Call("comment", [raw_message |-> raw_message],
                           IF resp = "ok" THEN None ELSE "HTTPError")
    /\ prev' = Acted(ret)
    /\ UNCHANGED <<pr, data0, pages, gen, sdvars>>

\* mutant: comment rejects None only
comment_none_only(raw_message, resp) ==
    /\ pr.kind = "PullRequest"
    /\ IF raw_message = None
       THEN /\ requests' = <<>>
            /\ ret' = Call("comment", [raw_message |-> raw_message], "ValueError")
       ELSE /\ requests' =
                <<[method |-> "POST", url |-> pr.url \o <<"comments">>,
                   data |-> [content |-> [raw |-> raw_message]]]>>
            /\ ret' = Call("comment", [raw_message |-> raw_message],
                           IF resp = "ok" THEN None ELSE "HTTPError")
    /\ prev' = Acted(ret)
    /\ UNCHANGED <<pr, data0, pages, gen, sdvars>>

comment(raw_message, resp) ==
    /\ pr.kind = "PullRequest"
    /\ IF ~Truthy(raw_message)
       THEN /\ requests' = <<>>
            /\ ret' = Call("comment", [raw_message |-> raw_message], "ValueError")
       ELSE /\ requests' =
                <<post(pr, "comments", [content |-> [raw |-> raw_message]])>>
            /\ ret' = Call("comment", [raw_message |-> raw_message,
                                        response |-> resp],
                           raise_for(resp))
    /\ prev' = Acted(ret)
    /\ UNCHANGED <<pr, data0, pages, gen, sdvars>>

\* mutant: approve repeats a request that failed
approve_retry(resp) ==
    /\ pr.kind = "PullRequest"
    /\ IF _check_if_open(pr) # None
       THEN /\ requests' = <<>>
            /\ ret' = Call("approve", <<>>, _check_if_open(pr))
       ELSE /\ requests' =
                IF resp = "ok" THEN <<post(pr, "approve", [approved |-> True])>>
                ELSE <<post(pr, "approve", [approved |-> True]),
                       post(pr, "approve", [approved |-> True])>>
            /\ ret' = Call("approve", [response |-> resp], raise_for(resp))
    /\ prev' = Acted(ret)
    /\ UNCHANGED <<pr, data0, pages, gen, sdvars>>

approve(resp) ==
    /\ pr.kind = "PullRequest"
    /\ IF _check_if_open(pr) # None
       THEN /\ requests' = <<>>
            /\ ret' = Call("approve", <<>>, _check_if_open(pr))
       ELSE /\ requests' = <<post(pr, "approve", [approved |-> True])>>
            /\ ret' = Call("approve", [response |-> resp], raise_for(resp))
    /\ prev' = Acted(ret)
    /\ UNCHANGED <<pr, data0, pages, gen, sdvars>>

unapprove(resp) ==
    /\ pr.kind = "PullRequest"
    /\ IF _check_if_open(pr) # None
       THEN /\ requests' = <<>>
            /\ ret' = Call("unapprove", <<>>, _check_if_open(pr))
       ELSE /\ requests' = <<delete(pr, "approve")>>
            /\ ret' = Call("unapprove", [response |-> resp], raise_for(resp))
    /\ prev' = Acted(ret)
    /\ UNCHANGED <<pr, data0, pages, gen, sdvars>>

\* mutant: decline without the open check
decline_unchecked(resp) ==
    /\ pr.kind = "PullRequest"
    /\ requests' = <<[method |-> "POST", url |-> pr.url \o <<"decline">>]>>
    /\ ret' = Call("decline", <<>>, IF resp = "ok" THEN None ELSE "HTTPError")
    /\ prev' = Acted(ret)
    /\ UNCHANGED <<pr, data0, pages, gen, sdvars>>

decline(resp) ==
    /\ pr.kind = "PullRequest"
    /\ IF _check_if_open(pr) # None
       THEN /\ requests' = <<>>
            /\ ret' = Call("decline", <<>>, _check_if_open(pr))
       ELSE /\ requests' = <<post_nodata(pr, "decline")>>
            /\ ret' = Call("decline", [response |-> resp], raise_for(resp))
    /\ prev' = Acted(ret)
    /\ UNCHANGED <<pr, data0, pages, gen, sdvars>>

\* mutant: merge sends the close_source_branch argument as given
merge_no_default(merge_strategy, csb, resp) ==
    /\ pr.kind = "PullRequest"
    /\ LET args == [merge_strategy |-> merge_strategy,
                    close_source_branch |-> csb]
       IN  IF ~is_open(pr)
           THEN /\ requests' = <<>>
                /\ ret' = Call("merge", args, "Exception")
           ELSE IF merge_strategy \notin
                       {PR_MERGE_COMMIT, PR_MERGE_SQUASH, PR_MERGE_FF}
           THEN /\ requests' = <<>>
                /\ ret' = Call("merge", args, "ValueError")
           ELSE /\ requests' =
                    <<[method |-> "POST", url |-> pr.url \o <<"merge">>,
                       data |-> [close_source_branch |-> csb,
                                 merge_strategy |-> merge_strategy]]>>
                /\ ret' = Call("merge", args,
                               IF resp = "ok" THEN None ELSE "HTTPError")
    /\ prev' = Acted(ret)
    /\ UNCHANGED <<pr, data0, pages, gen, sdvars>>

\* mutant: a merge that went through marks the cached document as merged
merge_updates_cache(merge_strategy, csb, resp) ==
    /\ pr.kind = "PullRequest"
    /\ LET args == [merge_strategy |-> merge_strategy,
                    close_source_branch |-> csb]
       IN  IF ~is_open(pr)
           THEN /\ requests' = <<>>
                /\ ret' = Call("merge", args, "Exception")
                /\ pr' = pr
           ELSE IF merge_strategy \notin
                       {PR_MERGE_COMMIT, PR_MERGE_SQUASH, PR_MERGE_FF}
           THEN /\ requests' = <<>>
                /\ ret' = Call("merge", args, "ValueError")
                /\ pr' = pr
           ELSE /\ requests' =
                    <<[method |-> "POST", url |-> pr.url \o <<"merge">>,
                       data |-> [close_source_branch |->
                                    Or(csb, close_source_branch(pr)),
                                 merge_strategy |-> merge_strategy]]>>
                /\ ret' = Call("merge", args,
                               IF resp = "ok" THEN None ELSE "HTTPError")
                /\ pr' = IF resp = "ok"
                         THEN [pr EXCEPT !.data.state = PR_STATE_MERGED]
                         ELSE pr
    /\ prev' = Acted(ret)
    /\ UNCHANGED <<data0, pages, gen, sdvars>>

\* mutant: merge without the merge_strategy validation
merge_any_strategy(merge_strategy, csb, resp) ==
    /\ pr.kind = "PullRequest"
    /\ LET args == [merge_strategy |-> merge_strategy,
                    close_source_branch |-> csb]
       IN  IF ~is_open(pr)
           THEN /\ requests' = <<>>
                /\ ret' = Call("merge", args, "Exception")
           ELSE /\ requests' =
                    <<[method |-> "POST", url |-> pr.url \o <<"merge">>,
                       data |-> [close_source_branch |->
                                    Or(csb, close_source_branch(pr)),
                                 merge_strategy |-> merge_strategy]]>>
                /\ ret' = Call("merge", args,
                               IF resp = "ok" THEN None ELSE "HTTPError")
    /\ prev' = Acted(ret)
    /\ UNCHANGED <<pr, data0, pages, gen, sdvars>>

merge(merge_strategy, csb, resp) ==
    /\ pr.kind = "PullRequest"
    /\ LET args == [merge_strategy |-> merge_strategy,
                    close_source_branch |-> csb]
       IN  IF _check_if_open(pr) # None
           THEN /\ requests' = <<>>
                /\ ret' = Call("merge", args, _check_if_open(pr))
           ELSE IF \A i \in DOMAIN PR_MERGE_STRATEGIES :
                       PR_MERGE_STRATEGIES[i] # merge_strategy
           THEN /\ requests' = <<>>
                /\ ret' = Call("merge", args, "ValueError")
           ELSE /\ requests' =
                    <<post(pr, "merge",
                           [close_source_branch |->
                                Or(csb, close_source_branch(pr)),
                            merge_strategy |-> merge_strategy])>>
                /\ ret' = Call("merge", args @@ [response |-> resp],
                               raise_for(resp))
    /\ prev' = Acted(ret)
    /\ UNCHANGED <<pr, data0, pages, gen, sdvars>>

-----------------------------------------------------------------------------
(* Specification of the resource objects *)

NoCall == Call("None", <<>>, None)
NoPrev == "None"

\* the Service Desk variables while no ServiceDesk client is in use
NoInsight == [pages |-> <<>>]
NoSd == [pc |-> "none"]
NoHeaders == <<>>

Init ==
    /\ pr = NoObject
    /\ data0 = [id |-> 0]
    /\ requests = <<>>
    /\ ret = NoCall
    /\ pages = <<>>
    /\ gen = [pc |-> "none"]
    /\ prev = NoPrev
    /\ insight = NoInsight
    /\ sd = NoSd
    /\ headers = NoHeaders

Next ==
    \/ \E data \in Docs : NewPullRequest(data)
    \/ \E data \in Docs : NewParticipant(data)
    \/ \E m \in MessageArgs, resp \in Responses : comment(m, resp)
    \/ \E resp \in Responses : approve(resp)
    \/ \E resp \in Responses : unapprove(resp)
    \/ \E resp \in Responses : decline(resp)
    \/ \E s \in MergeStrategyArgs, c \in CloseSourceBranchArgs,
          resp \in Responses : merge(s, c, resp)

Spec == Init /\ [][Next]_vars

-----------------------------------------------------------------------------
(* The server behind the collection endpoint *)

MaxPages == 2

PageSizes == 0..2

\* a record of a page is a pull request document or an error marker
ErrorMarker == [errors |-> "failed"]

ServerStates ==
    <<PR_STATE_OPEN, PR_STATE_MERGED, PR_STATE_DECLINED, PR_STATE_SUPERSEDED>>

ServerDoc(i) ==
    [type |-> "pullrequest", id |-> i,
     state |-> ServerStates[((i - 1) % 4) + 1],
     close_source_branch |-> IF i % 2 = 0 THEN True ELSE False]

\* the shape of a page chain: per page, per slot, "pr" or "err"
PageShapes == UNION {[1..n -> {"pr", "err"}] : n \in PageSizes}
ChainShapes == UNION {[1..n -> PageShapes] : n \in 1..MaxPages}

\* pull requests have distinct ids, handed out in the order of the listing
Slots(shape) ==
    UNION {{<<a, b>> : b \in 1..Len(shape[a])} : a \in 1..Len(shape)}

DocsBefore(shape, k, j) ==
    Cardinality({p \in Slots(shape) :
                    /\ p[1] < k \/ (p[1] = k /\ p[2] < j)
                    /\ shape[p[1]][p[2]] = "pr"})

Materialize(shape) ==
    [k \in 1..Len(shape) |->
        [j \in 1..Len(shape[k]) |->
            IF shape[k][j] = "pr" THEN ServerDoc(DocsBefore(shape, k, j) + 1)
            ELSE ErrorMarker]]

PageChains == {Materialize(shape) : shape \in ChainShapes}

\* the records of all pages, in page order and in record order within a page
RECURSIVE Flatten(_)
Flatten(chain) ==
    IF chain = <<>> THEN <<>> ELSE Head(chain) \o Flatten(Tail(chain))

first_url == Url \o <<"">>
page_url(k) == Url \o <<"?page=", str(k)>>

\* the page a URL of the listing denotes
page_of(url) ==
    IF url = first_url THEN 1
    ELSE CHOOSE k \in 1..Len(pages) : page_url(k) = url

\* the server's response to a page request
page_response(k) ==
    IF k < Len(pages)
    THEN [values |-> pages[k], next |-> page_url(k + 1)]
    ELSE [values |-> pages[k]]

\* the server's possible responses to GET {collection}/{id}
item_responses(i) ==
    LET found == {k \in DOMAIN Flatten(pages) :
                     /\ "id" \in DOMAIN Flatten(pages)[k]
                     /\ Flatten(pages)[k].id = i}
    IN  (IF found = {} THEN {[status |-> 404]}
         ELSE {[status |-> 200, body |-> Flatten(pages)[k]] : k \in found})
        \cup {[status |-> 200, body |-> ErrorMarker], [status |-> 500]}

QArgs == {None, "title~fix"}
SortArgs == {None, "-updated_on"}

-----------------------------------------------------------------------------
(* class PullRequests *)

\* Python's None as a returned or yielded value
NoneObject == [kind |-> "NoneType"]

\* mutant: __get_object wraps every record
__get_object_wrap_all(data) ==
    [raised |-> None,
     obj |-> IF "id" \in DOMAIN data
             THEN [kind |-> "PullRequest", url |-> url_joiner(Url, data.id),
                   data |-> data]
             ELSE [kind |-> "PullRequest", url |-> Url, data |-> data]]

\* mutant: __get_object binds every object to the first pull request
__get_object_first(data) ==
    IF "errors" \in DOMAIN data
    THEN [raised |-> None, obj |-> NoneObject]
    ELSE PullRequest__init__(url_joiner(Url, 1), ServerDoc(1))

\* mutant: __get_object binds the object to the collection's own URL
__get_object_unbound(data) ==
    IF "errors" \in DOMAIN data
    THEN [raised |-> None, obj |-> NoneObject]
    ELSE PullRequest__init__(Url, data)

\* the error __get_object raises (or None) and the value it returns
__get_object(data) ==
    IF "errors" \in DOMAIN data
    THEN [raised |-> None, obj |-> NoneObject]
    ELSE PullRequest__init__(url_joiner(Url, data["id"]), data)

\* mutant: q and sort are sent under each other's names
each_params_swapped(q, sort) ==
    (IF sort # None THEN [q |-> sort] ELSE <<>>)
        @@ (IF q # None THEN [sort |-> q] ELSE <<>>)

\* the params dict each() builds
each_params(q, sort) ==
    (IF sort # None THEN [sort |-> sort] ELSE <<>>)
        @@ (IF q # None THEN [q |-> q] ELSE <<>>)

NoGen == [pc |-> "none"]

\* mutant: a collection that remembers where its last enumeration ended
each_resume(q, sort) ==
    /\ gen' = [pc |-> "fetch",
               url |-> IF gen.pc = "done" THEN gen.url ELSE Url \o <<"">>,
               params |-> each_params(q, sort),
               response |-> [values |-> <<>>], i |-> 1,
               yielded |-> <<>>, requests |-> <<>>, raised |-> None,
               args |-> [q |-> q, sort |-> sort], again |-> (gen.pc = "done")]
    /\ UNCHANGED <<pr, data0, requests, ret, pages, prev, sdvars>>

\* each(q, sort): a new generator; nothing is requested before it is advanced.
\* args and again are history: the arguments of the call, and whether an
\* earlier enumeration of the collection had run to its end.
each(q, sort) ==
    /\ gen' = [pc |-> "fetch", url |-> first_url, params |-> each_params(q, sort),
               response |-> [values |-> <<>>], i |-> 1,
               yielded |-> <<>>, requests |-> <<>>, raised |-> None,
               args |-> [q |-> q, sort |-> sort], again |-> (gen.pc = "done")]
    /\ UNCHANGED <<pr, data0, requests, ret, pages, prev, sdvars>>

\* _get_paged: GET the next page
each_fetch(resp) ==
    /\ gen.pc = "fetch"
    /\ gen' = [gen EXCEPT
                 !.requests = Append(@, [method |-> "GET", url |-> gen.url,
                                         params |-> gen.params]),
                 !.pc = IF resp = "ok" THEN "values" ELSE "raised",
                 !.raised = raise_for(resp),
                 !.response = IF resp = "ok" THEN page_response(page_of(gen.url))
                              ELSE @,
                 !.i = 1]
    /\ UNCHANGED <<pr, data0, requests, ret, pages, prev, sdvars>>

\* mutant: the enumeration ends after its first item
each_yield_once ==
    /\ gen.pc = "values"
    /\ gen.i <= Len(gen.response.values)
    /\ LET o == __get_object(gen.response.values[gen.i])
       IN  gen' = [gen EXCEPT
                     !.i = @ + 1,
                     !.pc = IF o.raised # None THEN "raised" ELSE "done",
                     !.raised = o.raised,
                     !.yielded = IF o.raised # None THEN @
                                 ELSE Append(@, o.obj)]
    /\ UNCHANGED <<pr, data0, requests, ret, pages, prev, sdvars>>

\* each(): yield self.__get_object(pr) for the next record of the page
each_yield ==
    /\ gen.pc = "values"
    /\ gen.i <= Len(gen.response.values)
    /\ LET o == __get_object(gen.response.values[gen.i])
       IN  gen' = [gen EXCEPT
                     !.i = @ + 1,
                     !.pc = IF o.raised # None THEN "raised" ELSE @,
                     !.raised = o.raised,
                     !.yielded = IF o.raised # None THEN @
                                 ELSE Append(@, o.obj)]
    /\ UNCHANGED <<pr, data0, requests, ret, pages, prev, sdvars>>

\* _get_paged: the page is used up and names a next page
each_next_page ==
    /\ gen.pc = "values"
    /\ gen.i > Len(gen.response.values)
    /\ "next" \in DOMAIN gen.response
    /\ gen' = [gen EXCEPT !.pc = "fetch", !.url = gen.response.next,
                          !.params = <<>>]
    /\ UNCHANGED <<pr, data0, requests, ret, pages, prev, sdvars>>

\* _get_paged: the page is used up and names no next page
each_stop ==
    /\ gen.pc = "values"
    /\ gen.i > Len(gen.response.values)
    /\ "next" \notin DOMAIN gen.response
    /\ gen' = [gen EXCEPT !.pc = "done"]
    /\ UNCHANGED <<pr, data0, requests, ret, pages, prev, sdvars>>

\* the base class get(): the error it raises (or None) and the document
super_get(response) ==
    IF response.status = 200 THEN [raised |-> None, body |-> response.body]
    ELSE [raised |-> IF response.status = 404 THEN "NotFound" ELSE "HTTPError",
          body |-> <<>>]

\* mutant: get() swallows the error of the lookup and returns None
get_swallow(i, response) ==
    /\ requests' = <<[method |-> "GET", url |-> Url \o <<str(i)>>]>>
    /\ IF response.status # 200
       THEN /\ pr' = [kind |-> "NoneType"]
            /\ ret' = Call("get", [id |-> i, response |-> response], None)
            /\ UNCHANGED data0
       ELSE /\ pr' = __get_object(response.body).obj
            /\ ret' = Call("get", [id |-> i, response |-> response],
                           __get_object(response.body).raised)
            /\ data0' = IF pr'.kind = "PullRequest" THEN response.body
                        ELSE data0
    /\ UNCHANGED <<pages, gen, prev, sdvars>>

\* get(id): one GET of {collection}/{id}, wrapped by __get_object.  The
\* server's response is recorded with the arguments of the call.
get(i, response) ==
    /\ requests' = <<[method |-> "GET", url |-> Url \o <<str(i)>>]>>
    /\ IF super_get(response).raised # None
       THEN /\ pr' = NoObject
            /\ ret' = Call("get", [id |-> i, response |-> response],
                           super_get(response).raised)
            /\ UNCHANGED data0
       ELSE /\ pr' = __get_object(super_get(response).body).obj
            /\ ret' = Call("get", [id |-> i, response |-> response],
                           __get_object(super_get(response).body).raised)
            /\ data0' = IF pr'.kind = "PullRequest" THEN response.body
                        ELSE data0
    /\ UNCHANGED <<pages, gen, prev, sdvars>>

-----------------------------------------------------------------------------
(* Specification of the collection *)

InitColl ==
    /\ pr = NoObject
    /\ data0 = [id |-> 0]
    /\ requests = <<>>
    /\ ret = NoCall
    /\ pages \in PageChains
    /\ gen = NoGen
    /\ prev = NoPrev
    /\ insight = NoInsight
    /\ sd = NoSd
    /\ headers = NoHeaders

NextColl ==
    \/ \E q \in QArgs, sort \in SortArgs : each(q, sort)
    \/ \E resp \in Responses : each_fetch(resp)
    \/ each_yield
    \/ each_next_page
    \/ each_stop
    \/ \E i \in Ids : \E response \in item_responses(i) : get(i, response)

SpecColl == InitColl /\ [][NextColl]_vars

-----------------------------------------------------------------------------
(* One enumeration of the collection, consumed to its end *)

\* a step of the enumeration in progress
each_step ==
    \/ \E resp \in Responses : each_fetch(resp)
    \/ each_yield
    \/ each_next_page
    \/ each_stop

NextEach ==
    \/ \E q \in QArgs, sort \in SortArgs : gen.pc = "none" /\ each(q, sort)
    \/ \E resp \in Responses : each_fetch(resp)
    \/ each_yield
    \/ each_next_page
    \/ each_stop

\* the caller keeps asking for the next item
SpecEach == InitColl /\ [][NextEach]_vars /\ WF_vars(each_step)

-----------------------------------------------------------------------------
(* Pull requests obtained from the collection and then acted on *)

\* the listings served: two pages with an error marker among the records,
\* and a single page
UseShapes == { << <<"pr", "err">>, <<"pr">> >>, << <<"pr">> >> }
UseChains == {Materialize(shape) : shape \in UseShapes}

\* the caller keeps the k-th object an enumeration has yielded
take(k) ==
    /\ gen.pc # "none"
    /\ k \in DOMAIN gen.yielded
    /\ gen.yielded[k].kind = "PullRequest"
    /\ pr' = gen.yielded[k]
    /\ data0' = gen.yielded[k].data
    /\ requests' = <<>>
    /\ ret' = Call("take", [k |-> k], None)
    /\ prev' = Acted(ret)
    /\ UNCHANGED <<pages, gen, sdvars>>

InitUse ==
    /\ pr = NoObject
    /\ data0 = [id |-> 0]
    /\ requests = <<>>
    /\ ret = NoCall
    /\ pages \in UseChains
    /\ gen = NoGen
    /\ prev = NoPrev
    /\ insight = NoInsight
    /\ sd = NoSd
    /\ headers = NoHeaders

NextUse ==
    \/ each(None, None)
    \/ \E resp \in Responses : each_fetch(resp)
    \/ each_yield
    \/ each_next_page
    \/ each_stop
    \/ \E i \in Ids : \E response \in item_responses(i) : get(i, response)
    \/ \E k \in (IF gen.pc = "none" THEN {} ELSE DOMAIN gen.yielded) : take(k)
    \/ \E m \in MessageArgs, resp \in Responses : comment(m, resp)
    \/ \E resp \in Responses : approve(resp)
    \/ \E resp \in Responses : unapprove(resp)
    \/ \E resp \in Responses : decline(resp)
    \/ \E s \in MergeStrategyArgs, c \in CloseSourceBranchArgs,
          resp \in Responses : merge(s, c, resp)

SpecUse == InitUse /\ [][NextUse]_vars

-----------------------------------------------------------------------------
(* class ServiceDesk (service_desk.py).  Integers are TLA+ integers, a     *)
(* string format "{0}:{1}" of two ids is the pair of them, a Python list   *)
(* is a sequence and a dict with computed keys is a function.              *)

bbvars == <<pr, data0, pages, gen, prev>>

\* a call with the value it returns
CallV(op, args, raised, value) ==
    [op |-> op, args |-> args, raised |-> raised, value |-> value]

\* the headers the client sends with every Service Desk request
experimental_headers ==
    [h \in {"Content-Type", "Accept", "X-ExperimentalApi"} |->
        IF h = "X-ExperimentalApi" THEN "opt-in" ELSE "application/json"]

\* HTTP responses handed to raise_for_status: a status code and a body that
\* is no JSON, a JSON list, or a JSON object with or without "errorMessage"
StatusCodes == {100, 200, 204, 299, 301, 304, 399, 400, 404, 499, 500, 599, 600}
Bodies ==
    { [json |-> "no"],
      [json |-> "list"],
      [json |-> "object", data |-> [status |-> "failed"]],
      [json |-> "object", data |-> [errorMessage |-> "No such request"]],
      [json |-> "object", data |-> [errorMessage |-> "Forbidden", code |-> "x"]] }
HttpResponses == [status_code : StatusCodes, body : Bodies]

\* requests.Response.raise_for_status(): the raw HTTP error of a 4xx or 5xx
response_raise_for_status(response) ==
    IF 400 <= response.status_code /\ response.status_code < 600
    THEN [raised |-> "HTTPError", message |-> "raw HTTP error"]
    ELSE [raised |-> None, message |-> None]

\* mutant: only client errors count as errors
raise_for_status_4xx(response) ==
    IF 400 <= response.status_code /\ response.status_code < 500
    THEN IF /\ response.body.json = "object"
            /\ "errorMessage" \in DOMAIN response.body.data
         THEN [raised |-> "HTTPError",
               message |-> response.body.data["errorMessage"]]
         ELSE response_raise_for_status(response)
    ELSE [raised |-> None, message |-> None]

\* ServiceDesk.raise_for_status: the error it raises (or None) and its message
raise_for_status(response) ==
    IF 400 <= response.status_code /\ response.status_code < 600
    THEN IF /\ response.body.json = "object"
            /\ "errorMessage" \in DOMAIN response.body.data
         THEN [raised |-> "HTTPError",
               message |-> response.body.data["errorMessage"]]
         ELSE IF response_raise_for_status(response).raised # None
         THEN response_raise_for_status(response)
         ELSE [raised |-> "UnboundLocalError", message |-> None]
    ELSE [raised |-> None, message |-> None]

\* a call of raise_for_status by the caller
check_status(response) ==
    /\ sd.pc \in {"none", "done", "raised"}
    /\ ret' = CallV("raise_for_status", [response |-> response],
                    raise_for_status(response).raised,
                    raise_for_status(response).message)
    /\ requests' = <<>>
    /\ sd' = NoSd
    /\ UNCHANGED <<bbvars, insight, headers>>

-----------------------------------------------------------------------------
(* Attachments of a customer request *)

MaxFiles == 2

ServiceDeskId == "sd-1"
IssueKey == "SD-7"
Filenames == {"a.txt", "b.png"}

\* the filenames argument: a list of names, or one name that is not a list
FilenamesArgs ==
    {[str |-> f] : f \in Filenames}
    \cup {[list |-> l] : l \in UNION {[1..n -> Filenames] : n \in 0..MaxFiles}}
isinstance_list(filenames) == "list" \in DOMAIN filenames

PublicArgs == {True, False}
CommentArgs == {None, "see attached"}

\* what can go wrong with an upload: the request fails, or the file
\* cannot be opened
UploadFailures == {"error", "nofile"}

\* the id the server gives to the k-th temporary file it receives
temporaryAttachmentId(filename, k) == <<"temp", filename, k>>

\* the headers attach_temporary_file sends: a copy of the shared ones without
\* Content-Type and with X-Atlassian-Token
upload_headers ==
    [h \in (DOMAIN headers \ {"Content-Type"}) \cup {"X-Atlassian-Token"} |->
        IF h = "X-Atlassian-Token" THEN "no-check" ELSE headers[h]]

attach_temporary_file(service_desk_id, filename) ==
    [method |-> "POST",
     url |-> <<"rest/servicedeskapi/servicedesk", service_desk_id,
               "attachTemporaryFile">>,
     headers |-> upload_headers,
     files |-> [file |-> filename]]

add_attachments(issue_id_or_key, temp_attachment_ids, public, body) ==
    [method |-> "POST",
     url |-> <<"rest/servicedeskapi/request", issue_id_or_key, "attachment">>,
     headers |-> headers,
     data |-> [temporaryAttachmentIds |-> temp_attachment_ids,
               public |-> public,
               additionalComment |-> [body |-> body]]]

\* mutant: the ids are collected last first
temp_attachment_ids_reversed(files) ==
    [k \in DOMAIN files |->
        temporaryAttachmentId(files[Len(files) + 1 - k], Len(files) + 1 - k)]

\* the ids appended by the loop over the filenames
temp_attachment_ids(files) ==
    [k \in DOMAIN files |-> temporaryAttachmentId(files[k], k)]

\* mutant: attach_temporary_file edits the shared headers in place
headers_after_upload_in_place == upload_headers

\* the client's shared headers once attach_temporary_file has run: it works
\* on a copy, so they are what they were
headers_after_upload == headers

\* mutant: the files uploaded before a failure are attached all the same
create_attachments_keeps_uploaded(service_desk_id, issue_id_or_key, filenames, public, comment_, fail, failure, resp) ==
    LET files == IF ~isinstance_list(filenames)
                 THEN <<filenames.str>> ELSE filenames.list
        posted == IF fail = 0 THEN Len(files)
                  ELSE IF failure = "nofile" THEN fail - 1 ELSE fail
        uploads == [k \in 1..posted |->
                        attach_temporary_file(service_desk_id, files[k])]
        done == IF fail = 0 THEN files ELSE SubSeq(files, 1, fail - 1)
        add == add_attachments(issue_id_or_key, temp_attachment_ids(done),
                               public, comment_)
        args == [service_desk_id |-> service_desk_id,
                 issue_id_or_key |-> issue_id_or_key, filenames |-> filenames,
                 public |-> public, comment |-> comment_]
    IN  /\ sd.pc \in {"none", "done", "raised"}
        /\ fail \in 0..Len(files)
        /\ requests' = uploads \o <<add>>
        /\ ret' = CallV("create_attachments", args, raise_for(resp),
                        IF resp = "ok" THEN add.data ELSE None)
        /\ sd' = [pc |-> IF resp = "ok" THEN "done" ELSE "raised",
                  fail |-> fail]
        /\ UNCHANGED <<bbvars, insight, headers>>

\* create_attachments, where upload number `fail` fails (0: none does)
create_attachments(service_desk_id, issue_id_or_key, filenames, public, comment_, fail, failure, resp) ==
    LET files == IF ~isinstance_list(filenames)
                 THEN <<filenames.str>> ELSE filenames.list
        posted == IF fail = 0 THEN Len(files)
                  ELSE IF failure = "nofile" THEN fail - 1 ELSE fail
        uploads == [k \in 1..posted |->
                        attach_temporary_file(service_desk_id, files[k])]
        shared == IF files = <<>> THEN headers ELSE headers_after_upload
        add == [add_attachments(issue_id_or_key, temp_attachment_ids(files),
                                public, comment_)
                  EXCEPT !.headers = shared]
        args == [service_desk_id |-> service_desk_id,
                 issue_id_or_key |-> issue_id_or_key, filenames |-> filenames,
                 public |-> public, comment |-> comment_]
    IN  /\ sd.pc \in {"none", "done", "raised"}
        /\ fail \in 0..Len(files)
        /\ IF fail # 0
           THEN /\ requests' = uploads
                /\ ret' = CallV("create_attachments", args,
                                IF failure = "nofile" THEN "FileNotFoundError"
                                ELSE "HTTPError", None)
                /\ sd' = [pc |-> "raised", fail |-> fail]
           ELSE /\ requests' = uploads \o <<add>>
                /\ ret' = CallV("create_attachments", args, raise_for(resp),
                                IF resp = "ok" THEN add.data ELSE None)
                /\ sd' = [pc |-> IF resp = "ok" THEN "done" ELSE "raised",
                          fail |-> fail]
        /\ headers' = shared
        /\ UNCHANGED <<bbvars, insight>>

-----------------------------------------------------------------------------
(* The flat list methods of ServiceDesk *)

\* values passed as start and limit: None, an int, a string of digits or a
\* float (whole part and tenths)
PyNone == [t |-> "NoneType"]
PyInt(n) == [t |-> "int", int |-> n]
PyStr(digits) == [t |-> "str", str |-> digits]
PyFloat(whole, tenths) == [t |-> "float", whole |-> whole, tenths |-> tenths]

is_None(x) == x.t = "NoneType"

Digit(c) == CHOOSE d \in 0..9 : str(d) = c

RECURSIVE ParseDigits(_, _)
ParseDigits(acc, digits) ==
    IF digits = <<>> THEN acc
    ELSE ParseDigits(acc * 10 + Digit(Head(digits)), Tail(digits))

\* int(x): an int is itself, a string is parsed, a float is truncated
int(x) ==
    CASE x.t = "int" -> x.int
      [] x.t = "str" -> ParseDigits(0, x.str)
      [] x.t = "float" -> x.whole

\* bool(x)
bool(x) == IF Truthy(x) THEN True ELSE False

StartArgs == {PyNone, PyInt(0), PyInt(50), PyStr(<<"1", "0">>), PyFloat(2, 5)}
LimitArgs == {PyNone, PyInt(50), PyStr(<<"7">>)}
QueryArgs == {None, "john"}
IncludeCountArgs == {None, False, True}
TargetArgs == {None, "sd-1"}
QueueId == "q-3"
AdvancedModes == {True, False}

\* what the server answers to a list GET: a last page, a page with a next
\* page after it, or an error
ListResponses == {"last", "more", "error"}
list_body(resp) ==
    [values |-> <<"v1", "v2">>,
     isLastPage |-> IF resp = "last" THEN True ELSE False,
     next |-> IF resp = "last" THEN None ELSE "next page"]

\* mutant: start and limit are forwarded when truthy
paging_params_truthy(start, limit) ==
    [k \in {k \in {"start", "limit"} :
               \/ k = "start" /\ ~is_None(start) /\ int(start) # 0
               \/ k = "limit" /\ ~is_None(limit) /\ int(limit) # 0} |->
        IF k = "start" THEN int(start) ELSE int(limit)]

\* params = {}; if start is not None: params["start"] = int(start);
\* if limit is not None: params["limit"] = int(limit)
paging_params(start, limit) ==
    [k \in {k \in {"start", "limit"} :
               \/ k = "start" /\ ~is_None(start)
               \/ k = "limit" /\ ~is_None(limit)} |->
        IF k = "start" THEN int(start) ELSE int(limit)]

list_get(url, params) ==
    [method |-> "GET", url |-> url, headers |-> headers, params |-> params]

get_request_participants(issue_id_or_key, start, limit) ==
    list_get(<<"rest/servicedeskapi/request", issue_id_or_key, "participant">>,
             paging_params(start, limit))

get_sla(issue_id_or_key, start, limit) ==
    list_get(<<"rest/servicedeskapi/request", issue_id_or_key, "sla">>,
             paging_params(start, limit))

get_approvals(issue_id_or_key, start, limit) ==
    list_get(<<"rest/servicedeskapi/request", issue_id_or_key, "approval">>,
             paging_params(start, limit))

get_organisations(service_desk_id, start, limit) ==
    list_get(IF service_desk_id = None
             THEN <<"rest/servicedeskapi/organization">>
             ELSE <<"rest/servicedeskapi/servicedesk", service_desk_id,
                    "organization">>,
             paging_params(start, limit))

get_users_in_organization(organization_id, start, limit) ==
    list_get(<<"rest/servicedeskapi/organization", organization_id, "user">>,
             paging_params(start, limit))

get_customers(service_desk_id, query, start, limit) ==
    list_get(<<"rest/servicedeskapi/servicedesk", service_desk_id, "customer">>,
             paging_params(start, limit)
             @@ (IF query # None THEN [k \in {"query"} |-> query] ELSE <<>>))

get_queues(service_desk_id, include_count, start, limit) ==
    list_get(<<"rest/servicedeskapi/servicedesk", service_desk_id, "queue">>,
             (IF include_count # None
              THEN [k \in {"includeCount"} |-> bool(include_count)] ELSE <<>>)
             @@ paging_params(start, limit))

get_issues_in_queue(service_desk_id, queue_id, start, limit) ==
    list_get(<<"rest/servicedeskapi/servicedesk", service_desk_id, "queue",
               queue_id, "issue">>,
             paging_params(start, limit))

ListMethods ==
    {"get_request_participants", "get_sla", "get_approvals",
     "get_organisations", "get_users_in_organization", "get_customers",
     "get_queues", "get_issues_in_queue"}

\* the methods that return the 'values' of the answer unless advanced_mode
ValuesMethods == {"get_request_participants", "get_sla", "get_approvals"}

\* the arguments a method takes besides start and limit
Targets(m) == IF m = "get_organisations" THEN TargetArgs ELSE {"sd-1"}
Extras(m) ==
    CASE m = "get_customers" -> QueryArgs
      [] m = "get_queues" -> IncludeCountArgs
      [] OTHER -> {None}
Modes(m) == IF m \in ValuesMethods THEN AdvancedModes ELSE {False}

\* one call of a list method
list_call(m, target, extra, start, limit, advanced_mode, resp) ==
    LET query == IF m = "get_customers" THEN extra ELSE None
        include_count == IF m = "get_queues" THEN extra ELSE None
        request ==
            CASE m = "get_request_participants" ->
                    get_request_participants(target, start, limit)
              [] m = "get_sla" -> get_sla(target, start, limit)
              [] m = "get_approvals" -> get_approvals(target, start, limit)
              [] m = "get_organisations" ->
                    get_organisations(target, start, limit)
              [] m = "get_users_in_organization" ->
                    get_users_in_organization(target, start, limit)
              [] m = "get_customers" ->
                    get_customers(target, query, start, limit)
              [] m = "get_queues" ->
                    get_queues(target, include_count, start, limit)
              [] m = "get_issues_in_queue" ->
                    get_issues_in_queue(target, QueueId, start, limit)
        args == [target |-> target, query |-> query,
                 include_count |-> include_count, start |-> start,
                 limit |-> limit, advanced_mode |-> advanced_mode,
                 response |-> resp]
    IN  /\ sd.pc \in {"none", "done", "raised"}
        /\ requests' = <<request>>
        /\ ret' = CallV(m, args,
                        IF resp = "error" THEN "HTTPError" ELSE None,
                        IF resp = "error" THEN None
                        ELSE IF m \in ValuesMethods /\ ~Truthy(advanced_mode)
                        THEN list_body(resp).values
                        ELSE list_body(resp))
        /\ sd' = NoSd
        /\ UNCHANGED <<bbvars, insight, headers>>

InitDesk ==
    /\ pr = NoObject
    /\ data0 = [id |-> 0]
    /\ requests = <<>>
    /\ ret = NoCall
    /\ pages = <<>>
    /\ gen = NoGen
    /\ prev = NoPrev
    /\ insight = NoInsight
    /\ sd = NoSd
    /\ headers = experimental_headers

NextDesk ==
    \/ \E response \in HttpResponses : check_status(response)
    \/ \E filenames \in FilenamesArgs, public \in PublicArgs,
          comment_ \in CommentArgs, fail \in 0..MaxFiles,
          failure \in UploadFailures, resp \in Responses :
          create_attachments(ServiceDeskId, IssueKey, filenames, public,
                             comment_, fail, failure, resp)
    \/ \E m \in ListMethods, start \in StartArgs, limit \in LimitArgs,
          resp \in ListResponses :
          \E target \in Targets(m), extra \in Extras(m),
             advanced_mode \in Modes(m) :
             list_call(m, target, extra, start, limit, advanced_mode, resp)

SpecDesk == InitDesk /\ [][NextDesk]_vars

-----------------------------------------------------------------------------
(* The Insight server *)

MaxIqlPages == 2

IqlPageSizes == 1..2

WorkspaceId == "ws1"
ObjectTypeId == "23"
insight_api_endpoint == <<"gateway/api/jsm/insight/workspace", WorkspaceId, "v1">>

\* the attributes of the object type, as includetypeattributes returns them
ObjectTypeAttributes ==
    << [id |-> 10, name |-> "Name", globalId |-> <<WorkspaceId, 10>>,
        editable |-> TRUE],
       [id |-> 11, name |-> "Owner", globalId |-> <<WorkspaceId, 11>>,
        editable |-> TRUE],
       [id |-> 12, name |-> "Created", globalId |-> <<WorkspaceId, 12>>,
        editable |-> FALSE] >>

\* an object carries values for none, one or two of the attributes
AttributeLists == {<<>>, <<10>>, <<10, 11>>}

InsightObject(i, attrids) ==
    [id |-> i, objectType |-> [id |-> ObjectTypeId],
     attributes |->
        [k \in DOMAIN attrids |->
            [workspaceId |-> WorkspaceId, objectTypeAttributeId |-> attrids[k],
             objectAttributeValues |-> <<[value |-> "old"]>>]]]

IqlPageShapes == UNION {[1..n -> AttributeLists] : n \in IqlPageSizes}
IqlChainShapes == UNION {[1..n -> IqlPageShapes] : n \in 1..MaxIqlPages}

\* objects have distinct ids, in the order of the result
Position(shape, k, j) ==
    Cardinality({p \in Slots(shape) : p[1] < k \/ (p[1] = k /\ p[2] < j)}) + 1

IqlChains ==
    { [k \in DOMAIN shape |->
          [j \in DOMAIN shape[k] |->
              InsightObject(Position(shape, k, j), shape[k][j])]] :
      shape \in IqlChainShapes }

\* the server's answer to GET iql/objects for a page: the entries of the
\* page, the type attributes, the page number and the number of pages
iql_response(page) ==
    [objectEntries |-> IF page \in DOMAIN insight.pages
                       THEN insight.pages[page] ELSE <<>>,
     objectTypeAttributes |-> ObjectTypeAttributes,
     pageNumber |-> page,
     pageSize |-> Len(insight.pages)]

\* the server's answer to GET objecttype/{id}/attributes?onlyValueEditable
editable_attributes ==
    SelectSeq(ObjectTypeAttributes, LAMBDA ota : ota.editable)

\* the server's answer to PUT object/{id} and to POST object/create
put_response(data) ==
    [id |-> data.object_id, objectType |-> [id |-> data.objecttypeid]]
create_response(data) ==
    [id |-> 99, objectType |-> [id |-> data.objectTypeId]]

IqlArg == "objectType = Host"

\* dicts from attribute names to new values
NewAttributeArgs ==
    { <<>>,
      [n \in {"Name"} |-> "web01"],
      [n \in {"Owner"} |-> "ops"],
      [n \in {"Name", "Owner"} |-> IF n = "Name" THEN "web02" ELSE "dev"],
      [n \in {"Name", "Bogus"} |-> IF n = "Name" THEN "web03" ELSE "x"],
      [n \in {"Created"} |-> "today"],
      [n \in {"name"} |-> "web04"] }

-----------------------------------------------------------------------------
(* Insight methods of ServiceDesk *)

MaxFetch == 3

\* get_iql_objects(iql, page, includeattributes=1, includetypeattributes=1)
get_iql_objects(iql, page) ==
    [method |-> "GET", url |-> insight_api_endpoint \o <<"iql/objects">>,
     headers |-> headers,
     params |-> [iql |-> iql, page |-> page, includeattributes |-> 1,
                 includetypeattributes |-> 1]]

\* put_insight_object(object_id, objecttypeid, attributes)
put_insight_object(object_id, objecttypeid, attributes) ==
    [method |-> "PUT",
     url |-> insight_api_endpoint \o <<"object", str(object_id)>>,
     headers |-> headers,
     data |-> [object_id |-> object_id, objecttypeid |-> objecttypeid,
               attributes |-> attributes]]

\* the dupe-checked merge of a page's objectTypeAttributes into otas
RECURSIVE merge_otas(_, _)
merge_otas(otas, list) ==
    IF list = <<>> THEN otas
    ELSE merge_otas(IF Head(list).globalId \notin DOMAIN otas
                    THEN otas @@ (Head(list).globalId :> Head(list))
                    ELSE otas,
                    Tail(list))

\* the name of the type attribute of an object's attribute
attr_name(otas, a) == otas[<<a.workspaceId, a.objectTypeAttributeId>>].name

\* mutant: every attribute of the object is sent, named or not
newattrs_all(iob, otas, newattributes) ==
    [k \in DOMAIN iob.attributes |->
        [objectTypeAttributeId |-> iob.attributes[k].objectTypeAttributeId,
         objectAttributeValues |->
            <<[value |->
                IF attr_name(otas, iob.attributes[k]) \in DOMAIN newattributes
                THEN newattributes[attr_name(otas, iob.attributes[k])]
                ELSE None]>>]]

\* the list of updated attributes built for an object
newattrs(iob, otas, newattributes) ==
    LET kept == SelectSeq(iob.attributes,
                          LAMBDA a : attr_name(otas, a) \in DOMAIN newattributes)
    IN  [k \in DOMAIN kept |->
            [objectTypeAttributeId |-> kept[k].objectTypeAttributeId,
             objectAttributeValues |->
                <<[value |-> newattributes[attr_name(otas, kept[k])]]>>]]

UpdateOp == "update_insight_objects_attributes_by_name_iql"

\* the call begins: page, lastpage = 1, 2; iobs, otas = [], {}
update_start(newattributes, whatif) ==
    /\ sd.pc \in {"none", "done", "raised"}
    /\ sd' = [pc |-> "fetch", page |-> 1, lastpage |-> 2, iobs |-> <<>>,
              otas |-> <<>>, idx |-> 1, updates |-> <<>>,
              newattributes |-> newattributes, whatif |-> whatif]
    /\ requests' = <<>>
    /\ ret' = CallV(UpdateOp, [iql |-> IqlArg, newattributes |-> newattributes,
                               whatif |-> whatif], None, None)
    /\ UNCHANGED <<bbvars, insight, headers>>

\* one turn of `while page < lastpage`
update_fetch(resp) ==
    /\ sd.pc = "fetch"
    /\ sd.page < sd.lastpage
    /\ Len(requests) < MaxFetch
    /\ requests' = Append(requests, get_iql_objects(IqlArg, sd.page))
    /\ IF resp # "ok"
       THEN /\ sd' = [sd EXCEPT !.pc = "raised"]
            /\ ret' = [ret EXCEPT !.raised = raise_for(resp)]
       ELSE /\ LET results == iql_response(sd.page)
               IN  sd' = [sd EXCEPT
                            !.iobs = @ \o results.objectEntries,
                            !.otas = merge_otas(@, results.objectTypeAttributes),
                            !.page = results.pageNumber,
                            !.lastpage = results.pageSize]
            /\ ret' = ret
    /\ UNCHANGED <<bbvars, insight, headers>>

\* the while condition is false: on to the objects
update_loop_exit ==
    /\ sd.pc = "fetch"
    /\ ~(sd.page < sd.lastpage)
    /\ sd' = [sd EXCEPT !.pc = "update", !.idx = 1]
    /\ UNCHANGED <<bbvars, requests, ret, insight, headers>>

\* mutant: whatif is not consulted before the PUT
update_object_commits(resp) ==
    /\ sd.pc = "update"
    /\ sd.idx <= Len(sd.iobs)
    /\ LET iob == sd.iobs[sd.idx]
           new == newattrs(iob, sd.otas, sd.newattributes)
           put == new # <<>>
           request == put_insight_object(iob.id, iob.objectType.id, new)
       IN  /\ requests' = IF put THEN Append(requests, request) ELSE requests
           /\ sd' = [sd EXCEPT
                        !.iobs[sd.idx].attributes = new,
                        !.idx = @ + 1,
                        !.updates = IF put /\ resp = "ok"
                                    THEN Append(@, put_response(request.data))
                                    ELSE @,
                        !.pc = IF put /\ resp # "ok" THEN "raised" ELSE @]
           /\ ret' = IF put /\ resp # "ok"
                     THEN [ret EXCEPT !.raised = raise_for(resp)] ELSE ret
    /\ UNCHANGED <<bbvars, insight, headers>>

\* one turn of `for idx, iob in enumerate(iobs)`
update_object(resp) ==
    /\ sd.pc = "update"
    /\ sd.idx <= Len(sd.iobs)
    /\ LET iob == sd.iobs[sd.idx]
           new == newattrs(iob, sd.otas, sd.newattributes)
           put == ~Truthy(sd.whatif) /\ new # <<>>
           request == put_insight_object(iob.id, iob.objectType.id, new)
       IN  /\ requests' = IF put THEN Append(requests, request) ELSE requests
           /\ sd' = [sd EXCEPT
                        !.iobs[sd.idx].attributes = new,
                        !.idx = @ + 1,
                        !.updates = IF put /\ resp = "ok"
                                    THEN Append(@, put_response(request.data))
                                    ELSE @,
                        !.pc = IF put /\ resp # "ok" THEN "raised" ELSE @]
           /\ ret' = IF put /\ resp # "ok"
                     THEN [ret EXCEPT !.raised = raise_for(resp)] ELSE ret
    /\ UNCHANGED <<bbvars, insight, headers>>

\* the for loop is over: return iobs if whatif, else updates
update_return ==
    /\ sd.pc = "update"
    /\ sd.idx > Len(sd.iobs)
    /\ sd' = [sd EXCEPT !.pc = "done"]
    /\ ret' = [ret EXCEPT
                 !.value = IF Truthy(sd.whatif) THEN sd.iobs ELSE sd.updates]
    /\ UNCHANGED <<bbvars, requests, insight, headers>>

\* get_object_type_attributes(type_id, onlyValueEditable=True)
get_object_type_attributes(type_id, onlyValueEditable) ==
    [method |-> "GET",
     url |-> insight_api_endpoint \o <<"objecttype", type_id, "attributes">>,
     headers |-> headers,
     params |-> [onlyValueEditable |-> onlyValueEditable]]

\* create_insight_object: data holds objectTypeId and attributes, updated
\* with every other local that is not None
create_insight_object(objecttypeid, attributes, hasAvatar, avatarUUID) ==
    LET locals == [objecttypeid |-> objecttypeid, attributes |-> attributes,
                   hasAvatar |-> hasAvatar, avatarUUID |-> avatarUUID]
        data == [objectTypeId |-> objecttypeid, attributes |-> attributes]
        more == {k \in DOMAIN locals : k \notin DOMAIN data /\ locals[k] # None}
    IN  [method |-> "POST",
         url |-> insight_api_endpoint \o <<"object", "create">>,
         headers |-> headers,
         data |-> data @@ [k \in more |-> locals[k]]]

\* the names of a list of type attributes
otattrnames(otypeattrs) == {otypeattrs[k].name : k \in DOMAIN otypeattrs}

\* mutant: the passed names are not validated
keycheck_skipped(otypeattrs, attributes) == TRUE

\* all(i in otattrnames for i in attributes.keys())
keycheck(otypeattrs, attributes) ==
    \A i \in DOMAIN attributes : i \in otattrnames(otypeattrs)

\* the attrs list built from the type attributes, in their order
attrs(otypeattrs, attributes) ==
    LET named == SelectSeq(otypeattrs, LAMBDA ota : ota.name \in DOMAIN attributes)
    IN  [k \in DOMAIN named |->
            [objectTypeAttributeId |-> named[k].id,
             objectAttributeValues |-> <<[value |-> attributes[named[k].name]]>>]]

CreateOp == "create_insight_object_by_attribute_name"

\* hasAvatar and avatarUUID as passed together
AvatarArgs == {<<None, None>>, <<True, "uuid-1">>}

create_insight_object_by_attribute_name(objecttypeid, attributes, hasAvatar, avatarUUID, lookup, resp) ==
    LET args == [objecttypeid |-> objecttypeid, attributes |-> attributes,
                 hasAvatar |-> hasAvatar, avatarUUID |-> avatarUUID]
        get_request == get_object_type_attributes(objecttypeid, True)
        otypeattrs == editable_attributes
        post_request == create_insight_object(objecttypeid,
                            attrs(otypeattrs, attributes), hasAvatar, avatarUUID)
    IN  /\ sd.pc \in {"none", "done", "raised"}
        /\ IF lookup # "ok"
           THEN /\ requests' = <<get_request>>
                /\ ret' = CallV(CreateOp, args, raise_for(lookup), None)
                /\ sd' = [pc |-> "raised", responses |-> <<lookup>>]
           ELSE IF ~keycheck(otypeattrs, attributes)
           THEN /\ requests' = <<get_request>>
                /\ ret' = CallV(CreateOp, args, "ValueError", None)
                /\ sd' = [pc |-> "raised", responses |-> <<lookup>>]
           ELSE /\ requests' = <<get_request, post_request>>
                /\ ret' = CallV(CreateOp, args, raise_for(resp),
                                IF resp = "ok"
                                THEN create_response(post_request.data)
                                ELSE None)
                /\ sd' = [pc |-> IF resp = "ok" THEN "done" ELSE "raised",
                          responses |-> <<lookup, resp>>]
        /\ UNCHANGED <<bbvars, insight, headers>>

-----------------------------------------------------------------------------
(* ServiceDesk against an Insight server *)

WhatifArgs == {True, False}

InsightServers == [pages : IqlChains]

InitInsight ==
    /\ pr = NoObject
    /\ data0 = [id |-> 0]
    /\ requests = <<>>
    /\ ret = NoCall
    /\ pages = <<>>
    /\ gen = NoGen
    /\ prev = NoPrev
    /\ insight \in InsightServers
    /\ sd = NoSd
    /\ headers = experimental_headers

NextInsight ==
    \/ \E newattributes \in NewAttributeArgs, whatif \in WhatifArgs :
          update_start(newattributes, whatif)
    \/ \E resp \in Responses : update_fetch(resp)
    \/ update_loop_exit
    \/ \E resp \in Responses : update_object(resp)
    \/ update_return
    \/ \E attributes \in NewAttributeArgs, avatar \in AvatarArgs,
          lookup \in Responses, resp \in Responses :
          create_insight_object_by_attribute_name(
              ObjectTypeId, attributes, avatar[1], avatar[2], lookup, resp)

SpecInsight == InitInsight /\ [][NextInsight]_vars

-----------------------------------------------------------------------------
(* Properties of the resource objects, checked under Spec *)

\* the casings of "OPEN" among StateStrings, written out
OpenSpellings == {<<"O","P","E","N">>, <<"o","p","e","n">>, <<"O","p","e","n">>}
MergedSpellings == {<<"M","E","R","G","E","D">>, <<"m","e","r","g","e","d">>}
DeclinedSpellings ==
    {<<"D","E","C","L","I","N","E","D">>, <<"D","e","c","l","i","n","e","d">>}
SupersededSpellings ==
    {<<"S","U","P","E","R","S","E","D","E","D">>,
     <<"s","u","p","e","r","s","e","d","e","d">>}
UnrecognizedStates ==
    {<<"D","R","A","F","T">>, <<"O","P","E","N","E","D">>, <<>>}

AllowedStrategies == {"merge_commit", "squash", "fast_forward"}

\* C1: merge on a pull request whose cached state is not OPEN raises the
\* InvalidState error (Exception) and the call issues zero requests.
C1_MergeNotOpenFails ==
    (ret.op = "merge" /\ pr.data.state \notin OpenSpellings)
        => (ret.raised = "Exception" /\ Len(requests) = 0)

C1_Witness ==
    /\ ret.op = "merge"
    /\ pr.data.state \in UnrecognizedStates
    /\ ret.args.merge_strategy = "squash"
    /\ ret.raised = "Exception"
    /\ requests = <<>>

\* C2 as stated: merge with a merge_strategy outside the allowed set raises
\* ValueError whatever the cached state is, and issues no request.
C2_Original ==
    (ret.op = "merge" /\ ret.args.merge_strategy \notin AllowedStrategies)
        => (ret.raised = "ValueError" /\ requests = <<>>)

\* C2 amended: merge with a merge_strategy outside the allowed set issues no
\* request; it raises ValueError when the cached state is OPEN and the
\* InvalidState error (Exception) when the cached state is not OPEN.
C2_BadStrategyFails ==
    (ret.op = "merge" /\ ret.args.merge_strategy \notin AllowedStrategies)
        => /\ requests = <<>>
           /\ pr.data.state \in OpenSpellings => ret.raised = "ValueError"
           /\ pr.data.state \notin OpenSpellings => ret.raised = "Exception"

C2_Witness ==
    /\ ret.op = "merge"
    /\ ret.args.merge_strategy = "invalid"
    /\ pr.data.state = <<"O","P","E","N">>
    /\ ret.raised = "ValueError"
    /\ requests = <<>>

\* C3: approve, unapprove and decline raise the InvalidState error without a
\* request when the cached state is not OPEN, and issue exactly one request
\* (POST approve, DELETE approve, POST decline) when it is OPEN.
C3_OpenGuardedActions ==
    ret.op \in {"approve", "unapprove", "decline"} =>
        IF pr.data.state \notin OpenSpellings
        THEN ret.raised = "Exception" /\ requests = <<>>
        ELSE /\ Len(requests) = 1
             /\ ret.raised # "Exception"
             /\ requests[1].url =
                    pr.url \o <<IF ret.op = "decline" THEN "decline"
                                ELSE "approve">>
             /\ requests[1].method =
                    (IF ret.op = "unapprove" THEN "DELETE" ELSE "POST")

C3_Witness ==
    /\ ret.op = "unapprove"
    /\ pr.data.state = <<"o","p","e","n">>
    /\ Len(requests) = 1
    /\ requests[1].method = "DELETE"
    /\ ret.raised = None

\* C4: comment with an empty message ("" or None) raises ValueError and
\* issues no request; with a non-empty message m it issues exactly one POST
\* to "comments" whose body is {"content": {"raw": m}}.
C4_Comment ==
    ret.op = "comment" =>
        IF ret.args.raw_message \in {"", None}
        THEN ret.raised = "ValueError" /\ requests = <<>>
        ELSE requests =
                 << [method |-> "POST", url |-> pr.url \o <<"comments">>,
                     data |-> [content |-> [raw |-> ret.args.raw_message]]] >>

C4_Witness ==
    /\ ret.op = "comment"
    /\ ret.args.raw_message = "lgtm"
    /\ ret.raised = None
    /\ Len(requests) = 1
    /\ requests[1].data.content.raw = "lgtm"

Count(self) ==
    (IF is_open(self) THEN 1 ELSE 0) + (IF is_merged(self) THEN 1 ELSE 0)
    + (IF is_declined(self) THEN 1 ELSE 0)
    + (IF is_superseded(self) THEN 1 ELSE 0)

\* C5: for a state of OPEN, MERGED, DECLINED or SUPERSEDED exactly the
\* matching predicate is true and the other three are false; no document
\* makes two of the four predicates true.
C5_ExactlyOnePredicate ==
    pr.kind = "PullRequest" =>
        /\ Count(pr) <= 1
        /\ pr.data.state = <<"O","P","E","N">> =>
               is_open(pr) /\ Count(pr) = 1
        /\ pr.data.state = <<"M","E","R","G","E","D">> =>
               is_merged(pr) /\ Count(pr) = 1
        /\ pr.data.state = <<"D","E","C","L","I","N","E","D">> =>
               is_declined(pr) /\ Count(pr) = 1
        /\ pr.data.state = <<"S","U","P","E","R","S","E","D","E","D">> =>
               is_superseded(pr) /\ Count(pr) = 1

C5_Witness ==
    /\ pr.kind = "PullRequest"
    /\ pr.data.state = <<"D","E","C","L","I","N","E","D">>
    /\ is_declined(pr)
    /\ ~is_open(pr) /\ ~is_merged(pr) /\ ~is_superseded(pr)

\* C6: the predicates compare case-insensitively, and for a state string
\* that is none of the four values all four are false.
C6_CaseInsensitive ==
    pr.kind = "PullRequest" =>
        /\ is_open(pr) <=> pr.data.state \in OpenSpellings
        /\ is_merged(pr) <=> pr.data.state \in MergedSpellings
        /\ is_declined(pr) <=> pr.data.state \in DeclinedSpellings
        /\ is_superseded(pr) <=> pr.data.state \in SupersededSpellings
        /\ pr.data.state \in UnrecognizedStates => Count(pr) = 0

C6_Witness ==
    /\ pr.kind = "PullRequest"
    /\ pr.data.state = <<"O","p","e","n">>
    /\ is_open(pr)

C6_WitnessUnrecognized ==
    /\ pr.kind = "PullRequest"
    /\ pr.data.state = <<"D","R","A","F","T">>
    /\ Count(pr) = 0

\* C10: constructing a PullRequest (expected tag "pullrequest") or a
\* Participant (expected tag "participant") succeeds when the document's tag
\* equals the expected tag or the document has no tag, and raises the
\* SchemaMismatch error, leaving no object, when the tag is present and
\* different.
C10_TypeCheck ==
    ret.op \in {"PullRequest", "Participant"} =>
        LET expected == IF ret.op = "PullRequest" THEN "pullrequest"
                        ELSE "participant"
            doc == ret.args.data
        IN  IF "type" \in DOMAIN doc /\ doc.type # expected
            THEN ret.raised = "SchemaMismatch" /\ pr = NoObject
            ELSE /\ ret.raised = None
                 /\ pr.kind = ret.op
                 /\ pr.data = doc

C10_Witness ==
    /\ ret.op = "Participant"
    /\ "type" \in DOMAIN ret.args.data
    /\ ret.args.data.type = "pullrequest"
    /\ ret.raised = "SchemaMismatch"
    /\ pr = NoObject

C10_WitnessUntagged ==
    /\ ret.op = "PullRequest"
    /\ "type" \notin DOMAIN ret.args.data
    /\ pr.kind = "PullRequest"

\* C12: merge on an OPEN pull request with a valid strategy and no
\* close_source_branch argument issues exactly one POST to "merge" whose body
\* carries the given merge_strategy and the cached close_source_branch flag.
C12_MergeDefaultsToCachedFlag ==
    (/\ ret.op = "merge"
     /\ pr.data.state \in OpenSpellings
     /\ ret.args.merge_strategy \in AllowedStrategies
     /\ ret.args.close_source_branch = None)
        => requests =
             << [method |-> "POST", url |-> pr.url \o <<"merge">>,
                 data |-> [close_source_branch |-> pr.data.close_source_branch,
                           merge_strategy |-> ret.args.merge_strategy]] >>

C12_Witness ==
    /\ ret.op = "merge"
    /\ pr.data.state = <<"O","P","E","N">>
    /\ pr.data.close_source_branch = True
    /\ ret.args.merge_strategy = "fast_forward"
    /\ ret.args.close_source_branch = None
    /\ ret.raised = None
    /\ Len(requests) = 1
    /\ requests[1].data.close_source_branch = True

\* C13: no action method changes the cached document, so a merge or decline
\* made right after a merge or decline that went through, on an object
\* constructed OPEN, still passes the open check and issues its request.
C13_CachedDocumentNeverChanges ==
    pr.kind = "PullRequest" =>
        /\ pr.data = data0
        /\ (/\ prev \in {"merge", "decline"}
            /\ ret.op \in {"merge", "decline"}
            /\ data0.state \in OpenSpellings
            /\ ret.op = "merge" =>
                   ret.args.merge_strategy \in AllowedStrategies)
              => (ret.raised # "Exception" /\ Len(requests) = 1)

C13_Witness ==
    /\ pr.kind = "PullRequest"
    /\ prev = "merge"
    /\ ret.op = "decline"
    /\ ret.raised = None
    /\ Len(requests) = 1
    /\ pr.data = data0
    /\ pr.data.state = <<"O","P","E","N">>

\* C14: comment does not check the open precondition: with a non-empty
\* message it issues its POST whatever the cached state is; approve,
\* unapprove, decline and merge issue nothing unless the state is OPEN.
C14_CommentIgnoresState ==
    /\ (ret.op = "comment" /\ ret.args.raw_message \notin {"", None}) =>
           /\ Len(requests) = 1
           /\ requests[1].method = "POST"
           /\ requests[1].url = pr.url \o <<"comments">>
           /\ ret.raised # "Exception"
    /\ (/\ ret.op \in {"approve", "unapprove", "decline", "merge"}
        /\ pr.data.state \notin OpenSpellings) => requests = <<>>

C14_Witness ==
    /\ ret.op = "comment"
    /\ ret.args.raw_message = "ship it"
    /\ pr.data.state = <<"M","E","R","G","E","D">>
    /\ ret.raised = None
    /\ Len(requests) = 1

\* C26: merge called with close_source_branch supplied as True or False sends
\* exactly the supplied value in the request body, whatever the cached flag is
C26_SuppliedValueSent ==
    (/\ ret.op = "merge"
     /\ Len(requests) = 1
     /\ ret.args.close_source_branch \in {True, False}) =>
        requests[1].data.close_source_branch = ret.args.close_source_branch

-----------------------------------------------------------------------------
(* Properties of the collection, checked under SpecColl *)

\* the records of a sequence that are pull request documents, in order
RECURSIVE WellFormed(_)
WellFormed(records) ==
    IF records = <<>> THEN <<>>
    ELSE IF "errors" \in DOMAIN Head(records) THEN WellFormed(Tail(records))
    ELSE <<Head(records)>> \o WellFormed(Tail(records))

\* the pull request objects of a sequence of yielded items, in order
RECURSIVE Wrapped(_)
Wrapped(items) ==
    IF items = <<>> THEN <<>>
    ELSE IF Head(items).kind # "PullRequest" THEN Wrapped(Tail(items))
    ELSE <<Head(items)>> \o Wrapped(Tail(items))

Wrapper(doc) ==
    [kind |-> "PullRequest", url |-> <<"pullrequests", str(doc.id)>>,
     data |-> doc]

\* C7: an enumeration that ran to its end over N pages made exactly N page
\* requests and yielded the wrapped PullRequest of every pull request
\* record, in page order and in record order within a page; when every
\* record is a pull request record it yielded exactly one object per record.
C7_EachPagesInOrder ==
    (gen.pc = "done") =>
        /\ Len(gen.requests) = Len(pages)
        /\ Wrapped(gen.yielded) =
               [k \in DOMAIN WellFormed(Flatten(pages)) |->
                    Wrapper(WellFormed(Flatten(pages))[k])]
        /\ WellFormed(Flatten(pages)) = Flatten(pages) =>
               /\ Len(gen.yielded) = Len(Flatten(pages))
               /\ \A k \in DOMAIN gen.yielded :
                      gen.yielded[k] = Wrapper(Flatten(pages)[k])

\* page 1 with 2 items, page 2 with 1 item: 3 objects, 2 requests
C7_Witness ==
    /\ gen.pc = "done"
    /\ Len(pages) = 2 /\ Len(pages[1]) = 2 /\ Len(pages[2]) = 1
    /\ WellFormed(Flatten(pages)) = Flatten(pages)
    /\ Len(gen.yielded) = 3
    /\ \A k \in 1..3 : gen.yielded[k].kind = "PullRequest" /\ id(gen.yielded[k]) = k
    /\ Len(gen.requests) = 2

\* C8: an error-marker record is skipped: a finished enumeration yielded one
\* item per pull request record, each a wrapped PullRequest, and nothing for
\* an error-marker record.
C8_ErrorMarkerSkipped ==
    (gen.pc = "done") =>
        /\ Len(gen.yielded) = Len(WellFormed(Flatten(pages)))
        /\ \A k \in DOMAIN gen.yielded : gen.yielded[k].kind = "PullRequest"

\* C9: get(id) issues a single GET; a 404 raises NotFound and leaves no
\* object; a response carrying the pull request returns a PullRequest whose
\* id accessor equals the requested id.
C9_Get ==
    ret.op = "get" =>
        /\ requests = <<[method |-> "GET",
                         url |-> <<"pullrequests", str(ret.args.id)>>]>>
        /\ ret.args.response.status = 404 =>
               ret.raised = "NotFound" /\ pr = NoObject
        /\ (ret.args.response.status = 200
              /\ "errors" \notin DOMAIN ret.args.response.body) =>
               /\ ret.raised = None
               /\ pr.kind = "PullRequest"
               /\ id(pr) = ret.args.id

C9_Witness ==
    /\ ret.op = "get"
    /\ ret.args.id = 2
    /\ ret.args.response.status = 200
    /\ pr.kind = "PullRequest"
    /\ id(pr) = 2
    /\ Len(requests) = 1

C9_WitnessAbsent ==
    /\ ret.op = "get"
    /\ ret.args.response.status = 404
    /\ ret.raised = "NotFound"
    /\ pr = NoObject

\* C11: q and sort, when not None, are sent as the parameters "q" and "sort"
\* of the first page request only; every later page request goes to the
\* server's next-page URL with no parameters; a None argument adds nothing.
C11_ParamsOnFirstRequestOnly ==
    gen.pc # "none" =>
        \A k \in DOMAIN gen.requests :
            IF k = 1
            THEN /\ gen.requests[1].url = <<"pullrequests", "">>
                 /\ DOMAIN gen.requests[1].params =
                        {x \in {"q", "sort"} : gen.args[x] # None}
                 /\ \A x \in DOMAIN gen.requests[1].params :
                        gen.requests[1].params[x] = gen.args[x]
            ELSE /\ gen.requests[k].url = <<"pullrequests", "?page=", str(k)>>
                 /\ gen.requests[k].params = <<>>

C11_Witness ==
    /\ gen.pc = "done"
    /\ gen.args = [q |-> "title~fix", sort |-> None]
    /\ Len(gen.requests) = 2
    /\ gen.requests[1].params = [q |-> "title~fix"]
    /\ gen.requests[2].params = <<>>

\* what an enumeration requests and yields, given the server's pages
ExpectedRequests(args) ==
    [k \in 1..Len(pages) |->
        [method |-> "GET",
         url |-> IF k = 1 THEN <<"pullrequests", "">>
                 ELSE <<"pullrequests", "?page=", str(k)>>,
         params |-> IF k > 1 THEN <<>>
                    ELSE [x \in {y \in {"q", "sort"} : args[y] # None} |->
                              args[x]]]]

ExpectedItems ==
    [k \in DOMAIN Flatten(pages) |->
        IF "errors" \in DOMAIN Flatten(pages)[k] THEN [kind |-> "NoneType"]
        ELSE Wrapper(Flatten(pages)[k])]

IsPrefix(a, b) == Len(a) <= Len(b) /\ \A k \in DOMAIN a : a[k] = b[k]

\* C15: the collection keeps nothing between calls: every enumeration, a
\* first one or one begun after an earlier one ended, starts at the first
\* page and performs the requests and yields the items that the server's
\* pages and the call's arguments determine; every get(id) issues its GET.
C15_NoCachedState ==
    /\ gen.pc # "none" =>
           /\ IsPrefix(gen.requests, ExpectedRequests(gen.args))
           /\ IsPrefix(gen.yielded, ExpectedItems)
           /\ gen.pc = "done" =>
                  /\ gen.requests = ExpectedRequests(gen.args)
                  /\ gen.yielded = ExpectedItems
    /\ ret.op = "get" => Len(requests) = 1

C15_Witness ==
    /\ gen.pc = "done"
    /\ gen.again
    /\ Len(pages) = 2
    /\ Len(gen.requests) = 2
    /\ gen.requests[1].url = <<"pullrequests", "">>
    /\ Len(gen.yielded) = 3

\* C27: get(id) either raises or returns a PullRequest object, never None,
\* also when the fetched document carries an 'errors' key
C27_GetNeverNone ==
    ret.op = "get" => (ret.raised # None \/ pr.kind = "PullRequest")

-----------------------------------------------------------------------------
(* Properties of ServiceDesk, checked under SpecInsight *)

\* the GET and the PUT requests of the call, in the order issued
IqlGets == SelectSeq(requests, LAMBDA r : r.method = "GET")
Puts == SelectSeq(requests, LAMBDA r : r.method = "PUT")

InUpdate == ret.op = UpdateOp

\* C17: against a server holding P >= 1 pages the page loop requests each
\* page 1..P exactly once, in order, and ends having requested all P
C17_AllPagesOnce ==
    InUpdate =>
        /\ \A k \in DOMAIN IqlGets : IqlGets[k].params.page = k
        /\ Len(IqlGets) <= Len(insight.pages)
        /\ sd.pc \in {"update", "done"} => Len(IqlGets) = Len(insight.pages)

\* the name the object type gives to an attribute id
NameOf(attrid) ==
    LET ota == CHOOSE o \in {ObjectTypeAttributes[k] :
                                k \in DOMAIN ObjectTypeAttributes} :
                  o.id = attrid
    IN  ota.name

\* the attributes that would be sent for an object
WouldSend(iob, newattributes) ==
    LET kept == SelectSeq(iob.attributes,
                    LAMBDA a : NameOf(a.objectTypeAttributeId)
                                  \in DOMAIN newattributes)
    IN  [k \in DOMAIN kept |->
            [objectTypeAttributeId |-> kept[k].objectTypeAttributeId,
             objectAttributeValues |->
                <<[value |->
                    newattributes[NameOf(kept[k].objectTypeAttributeId)]]>>]]

\* the objects of the pages that were fetched, in order
RECURSIVE Fetched(_)
Fetched(gets) ==
    IF gets = <<>> THEN <<>>
    ELSE insight.pages[Head(gets).params.page] \o Fetched(Tail(gets))

\* C18: with whatif=True no PUT is issued and the call returns the fetched
\* objects, each with its attributes replaced by those that would be sent;
\* with whatif=False it returns the list of the PUT results
C18_WhatifCommitsNothing ==
    InUpdate =>
        /\ Truthy(ret.args.whatif) => Puts = <<>>
        /\ sd.pc = "done" /\ Truthy(ret.args.whatif) =>
              ret.value =
                 [k \in DOMAIN Fetched(IqlGets) |->
                    [Fetched(IqlGets)[k] EXCEPT !.attributes =
                        WouldSend(Fetched(IqlGets)[k], ret.args.newattributes)]]
        /\ sd.pc = "done" /\ ~Truthy(ret.args.whatif) =>
              ret.value = [k \in DOMAIN Puts |-> put_response(Puts[k].data)]

C18_Witness ==
    /\ InUpdate
    /\ sd.pc = "done"
    /\ ret.args.whatif = True
    /\ Puts = <<>>
    /\ \E k \in DOMAIN ret.value :
          /\ ret.value[k].attributes # <<>>
          /\ ret.value[k].attributes[1].objectAttributeValues[1].value # "old"

C18_WitnessCommit ==
    /\ InUpdate
    /\ sd.pc = "done"
    /\ ret.args.whatif = False
    /\ Len(ret.value) = 2

\* the fetched objects the loop over the objects has dealt with, and those
\* of them that have an attribute named by newattributes
Processed ==
    IF sd.pc \in {"update", "done"} \/ Puts # <<>>
    THEN SubSeq(Fetched(IqlGets), 1, sd.idx - 1) ELSE <<>>
Named ==
    SelectSeq(Processed,
              LAMBDA o : WouldSend(o, ret.args.newattributes) # <<>>)

\* C25: a key of newattributes that names no attribute of an object is
\* ignored without error: the attributes sent for an object are exactly its
\* attributes whose type-attribute name is a key, each with the new value,
\* and an object with no such attribute receives no PUT
C25_UnknownNamesIgnored ==
    InUpdate =>
        /\ ret.raised \in {None, "HTTPError"}
        /\ ~Truthy(ret.args.whatif) =>
              /\ Len(Puts) = Len(Named)
              /\ \A k \in DOMAIN Puts :
                    /\ Puts[k].url =
                          insight_api_endpoint \o <<"object", str(Named[k].id)>>
                    /\ Puts[k].data.attributes =
                          WouldSend(Named[k], ret.args.newattributes)

C25_Witness ==
    /\ InUpdate
    /\ sd.pc = "done"
    /\ ret.args.whatif = False
    /\ "Bogus" \in DOMAIN ret.args.newattributes
    /\ Len(Processed) = 2
    /\ Len(Puts) = 1
    /\ Len(Puts[1].data.attributes) = 1

\* the editable attributes of the object type, by name
EditableNames ==
    {ObjectTypeAttributes[k].name :
        k \in {j \in DOMAIN ObjectTypeAttributes :
                  ObjectTypeAttributes[j].editable}}
IdOf(name) ==
    LET ota == CHOOSE o \in {ObjectTypeAttributes[k] :
                                k \in DOMAIN ObjectTypeAttributes} :
                  o.name = name
    IN  ota.id

Posts == SelectSeq(requests, LAMBDA r : r.method = "POST")

\* C19: once the type's attributes are looked up, a key that is not the name
\* of an editable attribute makes the call raise ValueError with no create
\* request; when all keys are valid there is exactly one create request, whose
\* attributes list has exactly one entry per key, with its id and value
C19_CreateByName ==
    (ret.op = CreateOp /\ sd.responses[1] = "ok") =>
        LET passed == ret.args.attributes
            valid == DOMAIN passed \subseteq EditableNames
        IN  /\ ~valid => ret.raised = "ValueError" /\ Posts = <<>>
            /\ valid =>
                  /\ Len(Posts) = 1
                  /\ Posts[1].url = insight_api_endpoint \o <<"object", "create">>
                  /\ Posts[1].data.objectTypeId = ret.args.objecttypeid
                  /\ Len(Posts[1].data.attributes) = Cardinality(DOMAIN passed)
                  /\ \A key \in DOMAIN passed :
                        Cardinality({k \in DOMAIN Posts[1].data.attributes :
                            Posts[1].data.attributes[k] =
                               [objectTypeAttributeId |-> IdOf(key),
                                objectAttributeValues |->
                                   <<[value |-> passed[key]]>>]}) = 1

C19_Witness ==
    /\ ret.op = CreateOp
    /\ ret.raised = None
    /\ Cardinality(DOMAIN ret.args.attributes) = 2
    /\ Len(Posts) = 1
    /\ Len(Posts[1].data.attributes) = 2

C19_WitnessInvalid ==
    /\ ret.op = CreateOp
    /\ ret.raised = "ValueError"
    /\ "Name" \in DOMAIN ret.args.attributes
    /\ Posts = <<>>

-----------------------------------------------------------------------------
(* Properties of ServiceDesk, checked under SpecDesk *)

\* C16 as stated: every status outside 200..299 raises
C16_Original ==
    ret.op = "raise_for_status" =>
        (ret.args.response.status_code \notin 200..299 => ret.raised # None)

\* C16: raise_for_status raises HTTPError exactly for the statuses 400..599
\* and returns normally for every other status; the error carries the
\* server's errorMessage when the body is a JSON object with that field, and
\* is the raw HTTP error of the response otherwise
C16_RaiseForStatus ==
    ret.op = "raise_for_status" =>
        LET response == ret.args.response
            failed == response.status_code \in 400..599
            has_message == /\ response.body.json = "object"
                           /\ "errorMessage" \in DOMAIN response.body.data
        IN  /\ ~failed => ret.raised = None
            /\ failed => ret.raised = "HTTPError"
            /\ failed /\ has_message =>
                  ret.value = response.body.data.errorMessage
            /\ failed /\ ~has_message => ret.value = "raw HTTP error"

C16_Witness ==
    /\ ret.op = "raise_for_status"
    /\ ret.args.response.status_code = 599
    /\ ret.raised = "HTTPError"
    /\ ret.value = "Forbidden"

C16_WitnessRedirect ==
    /\ ret.op = "raise_for_status"
    /\ ret.args.response.status_code = 301
    /\ ret.raised = None

Uploads == SelectSeq(requests, LAMBDA r : "files" \in DOMAIN r)
Adds == SelectSeq(requests, LAMBDA r : "data" \in DOMAIN r)

GivenFiles ==
    IF "list" \in DOMAIN ret.args.filenames
    THEN ret.args.filenames.list ELSE <<ret.args.filenames.str>>

\* C20: the uploads are one per filename in the order given (a single name
\* counts as a list of one); when none fails, exactly one add-attachments
\* request follows them, with the returned ids in that order and the given
\* public flag and comment
C20_CreateAttachments ==
    ret.op = "create_attachments" =>
        /\ Len(Uploads) <= Len(GivenFiles)
        /\ \A k \in DOMAIN Uploads : Uploads[k].files.file = GivenFiles[k]
        /\ Len(Adds) <= 1
        /\ sd.fail = 0 =>
              /\ Len(Uploads) = Len(GivenFiles)
              /\ requests = Uploads \o Adds
              /\ Len(Adds) = 1
              /\ Adds[1].url = <<"rest/servicedeskapi/request",
                                 ret.args.issue_id_or_key, "attachment">>
              /\ Adds[1].data.temporaryAttachmentIds =
                    [k \in DOMAIN GivenFiles |->
                        temporaryAttachmentId(GivenFiles[k], k)]
              /\ Adds[1].data.public = ret.args.public
              /\ Adds[1].data.additionalComment.body = ret.args.comment

C20_Witness ==
    /\ ret.op = "create_attachments"
    /\ ret.raised = None
    /\ GivenFiles = <<"b.png", "a.txt">>
    /\ Len(Uploads) = 2
    /\ Len(Adds) = 1
    /\ ret.args.public = False

C20_WitnessSingle ==
    /\ ret.op = "create_attachments"
    /\ "str" \in DOMAIN ret.args.filenames
    /\ Len(Uploads) = 1
    /\ Len(Adds) = 1

\* C21: a call of a flat list method issues exactly one GET, whatever the
\* answer says about further pages, and its query parameters carry start
\* and limit, as integers, exactly when the arguments are not None
C21_CallerPaged ==
    ret.op \in ListMethods =>
        /\ Len(requests) = 1
        /\ requests[1].method = "GET"
        /\ ("start" \in DOMAIN requests[1].params) = (ret.args.start.t # "NoneType")
        /\ ("limit" \in DOMAIN requests[1].params) = (ret.args.limit.t # "NoneType")
        /\ \A k \in {"start", "limit"} \cap DOMAIN requests[1].params :
              requests[1].params[k] \in Int
        /\ ret.args.start.t = "int" =>
              requests[1].params["start"] = ret.args.start.int
        /\ ret.args.start = PyStr(<<"1", "0">>) =>
              requests[1].params["start"] = 10
        /\ ret.args.start = PyFloat(2, 5) => requests[1].params["start"] = 2
        /\ ret.args.limit = PyStr(<<"7">>) => requests[1].params["limit"] = 7

C21_Witness ==
    /\ ret.op = "get_queues"
    /\ ret.args.response = "more"
    /\ ret.args.start = PyInt(0)
    /\ ret.args.limit = PyNone
    /\ Len(requests) = 1
    /\ DOMAIN requests[1].params = {"includeCount", "start"}

\* C28: when an upload inside create_attachments fails, the error reaches the
\* caller and no add-attachments request is issued; the uploads before the
\* failing one have been made, and nothing is requested to undo them
C28_UploadFailure ==
    (ret.op = "create_attachments" /\ sd.fail # 0) =>
        /\ ret.raised \in {"HTTPError", "FileNotFoundError"}
        /\ Adds = <<>>
        /\ requests = Uploads
        /\ Len(Uploads) \in {sd.fail - 1, sd.fail}
        /\ \A k \in 1..(sd.fail - 1) : Uploads[k].files.file = GivenFiles[k]

C28_Witness ==
    /\ ret.op = "create_attachments"
    /\ sd.fail = 2
    /\ ret.raised = "HTTPError"
    /\ Len(Uploads) = 2
    /\ Adds = <<>>

C28_WitnessNoFile ==
    /\ ret.op = "create_attachments"
    /\ sd.fail = 2
    /\ ret.raised = "FileNotFoundError"
    /\ Len(Uploads) = 1

\* C29: the uploads leave the client's shared headers as they were: they
\* still hold Content-Type and no X-Atlassian-Token, and every request that
\* is not an upload carries them
C29_SharedHeadersUnchanged ==
    /\ headers = experimental_headers
    /\ "Content-Type" \in DOMAIN headers
    /\ "X-Atlassian-Token" \notin DOMAIN headers
    /\ \A k \in DOMAIN requests :
          IF "files" \in DOMAIN requests[k]
          THEN /\ "Content-Type" \notin DOMAIN requests[k].headers
               /\ requests[k].headers["X-Atlassian-Token"] = "no-check"
          ELSE requests[k].headers = experimental_headers

C29_Witness ==
    /\ ret.op = "create_attachments"
    /\ Len(Uploads) = 2
    /\ Len(Adds) = 1
    /\ Adds[1].headers = experimental_headers
    /\ headers = experimental_headers

-----------------------------------------------------------------------------
(* Properties checked under SpecUse *)

ActionOps == {"comment", "approve", "unapprove", "decline", "merge"}

\* C22: nothing is retried or recovered: an action or a get whose request
\* fails at the transport raises that error after exactly one request, and
\* a locally raised error (the open check, the argument checks) comes with
\* no request at all
C22_NoRetry ==
    /\ ret.op \in ActionOps =>
          /\ Len(requests) <= 1
          /\ ("response" \in DOMAIN ret.args) = (Len(requests) = 1)
          /\ ("response" \in DOMAIN ret.args /\ ret.args.response # "ok") =>
                ret.raised = "HTTPError"
          /\ ret.raised \in {"Exception", "ValueError"} => requests = <<>>
    /\ ret.op = "get" =>
          /\ Len(requests) = 1
          /\ ret.args.response.status # 200 =>
                ret.raised \in {"NotFound", "HTTPError"}

C22_Witness ==
    /\ ret.op = "approve"
    /\ "response" \in DOMAIN ret.args
    /\ ret.args.response = "error"
    /\ ret.raised = "HTTPError"
    /\ Len(requests) = 1

C22_WitnessLocal ==
    /\ ret.op = "merge"
    /\ ret.raised = "ValueError"
    /\ requests = <<>>

C22_WitnessGet ==
    /\ ret.op = "get"
    /\ ret.args.response.status = 500
    /\ ret.raised = "HTTPError"

\* the path segment an action's request ends with
Segment(op) ==
    CASE op = "comment" -> "comments"
      [] op \in {"approve", "unapprove"} -> "approve"
      [] op = "decline" -> "decline"
      [] op = "merge" -> "merge"

\* C23: a PullRequest returned by get(id) or yielded by each() is bound to
\* {collection_url}/{id}, and the requests of its actions go to
\* {collection_url}/{id}/comments, /approve, /decline and /merge
C23_BoundToItem ==
    /\ (ret.op = "get" /\ pr.kind = "PullRequest") =>
          pr.url = Url \o <<str(ret.args.id)>>
    /\ gen.pc # "none" =>
          \A k \in DOMAIN gen.yielded :
             gen.yielded[k].kind = "PullRequest" =>
                gen.yielded[k].url = Url \o <<str(gen.yielded[k].data.id)>>
    /\ (ret.op \in ActionOps /\ Len(requests) = 1) =>
          requests[1].url = Url \o <<str(pr.data.id), Segment(ret.op)>>

C23_Witness ==
    /\ ret.op = "comment"
    /\ pr.data.id = 2
    /\ Len(requests) = 1
    /\ requests[1].url = <<"pullrequests", "2", "comments">>

C23_WitnessYielded ==
    /\ ret.op = "take"
    /\ pr.url = <<"pullrequests", "2">>

-----------------------------------------------------------------------------
(* Properties checked under SpecEach *)

\* what holds of an enumeration at every moment: page k is the k-th page
\* requested, a page is requested only after one that names it as next, and
\* the enumeration is exhausted only after the records of a page that names
\* no next page, which is the last page of the chain
EachPaging ==
    gen.pc # "none" =>
        /\ Len(gen.requests) <= Len(pages)
        /\ \A k \in DOMAIN gen.requests :
              gen.requests[k].url = IF k = 1 THEN first_url ELSE page_url(k)
        /\ (gen.pc = "fetch" /\ gen.requests # <<>>) =>
              "next" \in DOMAIN gen.response
        /\ gen.pc = "done" =>
              /\ "next" \notin DOMAIN gen.response
              /\ gen.i > Len(gen.response.values)
              /\ Len(gen.requests) = Len(pages)
              /\ Len(gen.yielded) = Len(Flatten(pages))

\* C24: each is exhausted exactly when a page carries no next-page pointer:
\* over a finite page chain an enumeration that is consumed ends (with the
\* last page's records, or with the error of a failed request), and no page
\* is requested after one without a next-page pointer
C24_Exhausted ==
    /\ []EachPaging
    /\ (gen.pc = "fetch") ~> (gen.pc \in {"done", "raised"})

C24_Witness ==
    /\ gen.pc = "done"
    /\ Len(pages) = 2
    /\ Len(gen.requests) = 2
    /\ Len(gen.yielded) = 3

====
